---------------------------- MODULE Spec2Model ----------------------------
(***************************************************************************)
(* Model of FantasyScheduler/fantasy_scheduler_ortools.py: the league      *)
(* tables, the constraints the script adds to the CP-SAT model, the call   *)
(* of the solver, the extraction of the schedule and the checks printed    *)
(* under VALIDATION SUMMARY.                                               *)
(*                                                                         *)
(* Team indices, week indices and the keys of matches are 0-based, as in   *)
(* the script.  An assignment of the match variables is the set of keys    *)
(* <<i, j, w>> whose variable has value 1 (team i hosts team j in week w). *)
(***************************************************************************)
EXTENDS Integers, Sequences, FiniteSets, TLC

(***************************************************************************)
(* League tables                                                           *)
(***************************************************************************)
divisions == <<"North", "South", "East", "West">>

teams_by_div ==
    [d \in {"North", "South", "East", "West"} |->
        CASE d = "North" -> <<"Thor", "Blake", "Abe", "DTM">>
          [] d = "South" -> <<"Samran", "Nasties", "Thomas", "Shooter">>
          [] d = "East"  -> <<"Emelie", "AMO", "Lukose", "Sydney">>
          [] d = "West"  -> <<"Nick", "Rej", "Saagar", "Dino">>]

opposite ==
    [d \in {"North", "South", "East", "West"} |->
        CASE d = "North" -> "South"
          [] d = "South" -> "North"
          [] d = "East"  -> "West"
          [] d = "West"  -> "East"]

teams ==
    teams_by_div["North"] \o teams_by_div["South"] \o
    teams_by_div["East"] \o teams_by_div["West"]

T == Len(teams)

G == 8

TeamNames == {teams[k] : k \in 1..T}

idx == [t \in TeamNames |-> (CHOOSE k \in 1..T : teams[k] = t) - 1]

idx_to_team == [i \in 0..(T - 1) |-> teams[i + 1]]

div_of ==
    [t \in TeamNames |->
        CHOOSE d \in DOMAIN teams_by_div :
            \E k \in 1..Len(teams_by_div[d]) : teams_by_div[d][k] = t]

\* div_of[idx_to_team[i]], the division of the team with index i
DivOfIdx == [i \in 0..(T - 1) |-> div_of[idx_to_team[i]]]

rivals_configured ==
    << <<"DTM", "Sydney">>, <<"Thomas", "Emelie">>, <<"Thor", "Nick">>,
       <<"Blake", "Rej">>, <<"Samran", "Dino">>, <<"Abe", "Lukose">>,
       <<"Nasties", "Saagar">>, <<"Shooter", "AMO">> >>

\* Scenario C: the same table with two rivalry pairs taken inside a division
rivals_same_division ==
    << <<"DTM", "Sydney">>, <<"Thomas", "Emelie">>, <<"Thor", "Blake">>,
       <<"Nick", "Rej">>, <<"Samran", "Dino">>, <<"Abe", "Lukose">>,
       <<"Nasties", "Saagar">>, <<"Shooter", "AMO">> >>

(***************************************************************************)
(* Helpers for the loops of the script                                     *)
(***************************************************************************)
\* the concatenation of a sequence of sequences
RECURSIVE Flatten(_)
Flatten(ss) ==
    IF Len(ss) = 0 THEN << >>
    ELSE IF Len(ss) = 1 THEN ss[1]
    ELSE LET h == Len(ss) \div 2
         IN  Flatten(SubSeq(ss, 1, h)) \o Flatten(SubSeq(ss, h + 1, Len(ss)))

Min(a, b) == IF a < b THEN a ELSE b

\* one linear constraint over match variables: sum(vars) rel rhs
Con(f, vs, r, n) == [fam |-> f, vars |-> vs, rel |-> r, rhs |-> n]

\* the index pairs (i < j) of one division, in the order of its two loops
DivPairsOf(d) ==
    LET n == Len(teams_by_div[d])
        di == [k \in 1..n |-> idx[teams_by_div[d][k]]]
    IN  Flatten([i \in 1..n |-> [j \in 1..(n - i) |-> <<di[i], di[i + j]>>]])

\* every division's pairs, divisions in the order of teams_by_div.values()
DivPairs == Flatten([k \in 1..Len(divisions) |-> DivPairsOf(divisions[k])])

\* the index pairs (team of div1, team of div2) of the two opposite pairings
OppositePairs ==
    LET pairing == << <<"North", "South">>, <<"East", "West">> >>
        of(p) == Flatten([a \in 1..Len(teams_by_div[p[1]]) |->
                    [b \in 1..Len(teams_by_div[p[2]]) |->
                        <<idx[teams_by_div[p[1]][a]], idx[teams_by_div[p[2]][b]]>>]])
    IN  Flatten([k \in 1..Len(pairing) |-> of(pairing[k])])

\* non_division_teams of team i, ascending
NonDivisionTeams(i) ==
    {j \in 0..(T - 1) : j # i /\ DivOfIdx[j] # DivOfIdx[i]}

\* team_div_indices of team i
TeamDivIndices(i) ==
    {j \in 0..(T - 1) : j # i /\ DivOfIdx[j] = DivOfIdx[i]}

\* a finite set of integers as the ascending sequence
RECURSIVE Ascending(_)
Ascending(S) ==
    IF S = {} THEN <<>>
    ELSE LET m == CHOOSE x \in S : \A y \in S : x <= y
         IN  <<m>> \o Ascending(S \ {m})


(***************************************************************************)
(* The constraints added to the CP-SAT model, family by family, each in    *)
(* the order in which the script's loops call model.Add                    *)
(***************************************************************************)
\* matches[i][j][w] and matches[j][i][w] over the given weeks
Meetings(i, j, ws) == {<<i, j, w>> : w \in ws} \cup {<<j, i, w>> : w \in ws}

\* matches[i][j][w] for every j in js and w in ws
HomeVars(i, js, ws) == {<<i, j, w>> : j \in js, w \in ws}

\* matches[j][i][w] for every j in js and w in ws
AwayVars(i, js, ws) == {<<j, i, w>> : j \in js, w \in ws}

Others(i) == (0..(T - 1)) \ {i}

\* Constraint 1: each team plays exactly once per week
Constraint1(weeks) ==
    Flatten([w \in 1..weeks |-> [i \in 1..T |->
        Con("1", HomeVars(i - 1, Others(i - 1), {w - 1}) \cup
                 AwayVars(i - 1, Others(i - 1), {w - 1}), "eq", 1)]])

\* Constraint 2: each week has exactly G games
Constraint2(weeks) ==
    [w \in 1..weeks |->
        Con("2", {<<i, j, w - 1>> : i \in 0..(T - 1), j \in 0..(T - 1)} \
                 {<<i, i, w - 1>> : i \in 0..(T - 1)}, "eq", G)]

\* Constraint 3: each division pair plays exactly twice
Constraint3(weeks) ==
    [k \in 1..Len(DivPairs) |->
        Con("3", Meetings(DivPairs[k][1], DivPairs[k][2], 0..(weeks - 1)), "eq", 2)]

\* a variant of Constraint 4 that only requires a meeting
Constraint4_at_least(weeks) ==
    [k \in 1..Len(OppositePairs) |->
        Con("4", Meetings(OppositePairs[k][1], OppositePairs[k][2], 0..(weeks - 1)),
            "ge", 1)]

\* Constraint 4: each pair of opposite divisions plays exactly once
Constraint4(weeks) ==
    [k \in 1..Len(OppositePairs) |->
        Con("4", Meetings(OppositePairs[k][1], OppositePairs[k][2], 0..(weeks - 1)),
            "eq", 1)]

\* the teams of the division opposite to team i's
OppositeTeams(i) ==
    {j \in 0..(T - 1) : DivOfIdx[j] = opposite[DivOfIdx[i]]}

\* a variant of Constraint 4b that fixes the number of games against the
\* opposite division and leaves the venues free
Constraint4b_anyvenue(weeks) ==
    LET pairing == << <<"North", "South">>, <<"East", "West">> >>
        plays(d) == [a \in 1..Len(teams_by_div[d]) |->
            Con("4b", UNION {Meetings(idx[teams_by_div[d][a]], o, 0..(weeks - 1)) :
                                o \in OppositeTeams(idx[teams_by_div[d][a]])},
                "eq", 4)]
    IN  Flatten([k \in 1..Len(pairing) |->
            plays(pairing[k][1]) \o plays(pairing[k][2])])

\* Constraint 4b: each team hosts exactly 2 games against its opposite division
Constraint4b(weeks) ==
    LET pairing == << <<"North", "South">>, <<"East", "West">> >>
        hosts(d) == [a \in 1..Len(teams_by_div[d]) |->
            Con("4b", HomeVars(idx[teams_by_div[d][a]],
                               OppositeTeams(idx[teams_by_div[d][a]]),
                               0..(weeks - 1)), "eq", 2)]
    IN  Flatten([k \in 1..Len(pairing) |->
            hosts(pairing[k][1]) \o hosts(pairing[k][2])])

\* a variant of Constraint 5 that fixes only the number of games of a team
Constraint5_unbalanced(weeks) ==
    Flatten([i \in 1..T |->
        << Con("5", HomeVars(i - 1, Others(i - 1), 0..(weeks - 1)) \cup
                    AwayVars(i - 1, Others(i - 1), 0..(weeks - 1)), "eq", 14) >>])

\* Constraint 5: 7 home and 7 away games per team
Constraint5(weeks) ==
    Flatten([i \in 1..T |->
        << Con("5", HomeVars(i - 1, Others(i - 1), 0..(weeks - 1)), "eq", 7),
           Con("5", AwayVars(i - 1, Others(i - 1), 0..(weeks - 1)), "eq", 7) >>])

\* Constraint 5b: each divisional pair plays exactly once at each location
Constraint5b(weeks) ==
    Flatten([k \in 1..Len(DivPairs) |->
        << Con("5b", HomeVars(DivPairs[k][1], {DivPairs[k][2]}, 0..(weeks - 1)), "eq", 1),
           Con("5b", HomeVars(DivPairs[k][2], {DivPairs[k][1]}, 0..(weeks - 1)), "eq", 1) >>])

rivalry_week == 9

\* a variant of Constraint 6 that is off by one week
Constraint6_early(rv) ==
    [k \in 1..Len(rv) |->
        Con("6", Meetings(idx[rv[k][1]], idx[rv[k][2]], {rivalry_week - 1}), "eq", 1)]

\* Constraint 6: every rivalry pair plays in the rivalry week
Constraint6(rv) ==
    [k \in 1..Len(rv) |->
        Con("6", Meetings(idx[rv[k][1]], idx[rv[k][2]], {rivalry_week}), "eq", 1)]

separation_weeks == 3

\* a variant of Constraint 7 whose inner loop stops one week early
Constraint7_short(weeks) ==
    Flatten([k \in 1..Len(DivPairs) |->
        Flatten([w1 \in 1..weeks |->
            [d \in 1..(Min(w1 - 1 + separation_weeks - 1, weeks) - w1) |->
                Con("7", Meetings(DivPairs[k][1], DivPairs[k][2],
                                  {w1 - 1, w1 - 1 + d}), "le", 1)]])])

\* Constraint 7: minimum separation between the two games of a division pair
Constraint7(weeks) ==
    Flatten([k \in 1..Len(DivPairs) |->
        Flatten([w1 \in 1..weeks |->
            [d \in 1..(Min(w1 - 1 + separation_weeks, weeks) - w1) |->
                Con("7", Meetings(DivPairs[k][1], DivPairs[k][2],
                                  {w1 - 1, w1 - 1 + d}), "le", 1)]])])

\* a variant of Constraint 8 that allows 3 division games in 3 weeks
Constraint8_loose(weeks) ==
    Flatten([i \in 1..T |-> [w1 \in 1..(weeks - 2) |->
        Con("8", UNION {Meetings(i - 1, o, {w1 - 1, w1, w1 + 1}) :
                            o \in TeamDivIndices(i - 1)}, "le", 3)]])

\* Constraint 8: at most 2 division games in any 3 consecutive weeks
Constraint8(weeks) ==
    Flatten([i \in 1..T |-> [w1 \in 1..(weeks - 2) |->
        Con("8", UNION {Meetings(i - 1, o, {w1 - 1, w1, w1 + 1}) :
                            o \in TeamDivIndices(i - 1)}, "le", 2)]])

last_8_weeks == 6..13

\* Constraint 9: at least 3 division games in the last 8 weeks; a week that
\* is not a key of matches contributes no variable, and a team with no
\* variable at all gets no constraint
Constraint9(weeks) ==
    LET vs(i) == UNION {Meetings(i, o, last_8_weeks \cap (0..(weeks - 1))) :
                            o \in TeamDivIndices(i)}
    IN  Flatten([i \in 1..T |->
            IF vs(i - 1) # {} THEN << Con("9", vs(i - 1), "ge", 3) >> ELSE << >>])

\* a variant of Constraint 10 that allows a second meeting
Constraint10_twice(weeks) ==
    Flatten([i \in 1..T |->
        LET nd == Ascending(NonDivisionTeams(i - 1))
        IN  [k \in 1..Len(nd) |->
                Con("10", Meetings(i - 1, nd[k], 0..(weeks - 1)), "le", 2)]])

\* Constraint 10: no team plays a non-division opponent more than once
Constraint10(weeks) ==
    Flatten([i \in 1..T |->
        LET nd == Ascending(NonDivisionTeams(i - 1))
        IN  [k \in 1..Len(nd) |->
                Con("10", Meetings(i - 1, nd[k], 0..(weeks - 1)), "le", 1)]])

\* a variant of Constraint 11 that takes the week before the last as final
Constraint11_early(weeks) ==
    LET final_week == weeks - 2
    IN  Flatten([i \in 1..T |->
            LET nd == Ascending(NonDivisionTeams(i - 1))
            IN  Flatten([k \in 1..Len(nd) |->
                    << Con("11", {<<i - 1, nd[k], final_week>>}, "eq", 0),
                       Con("11", {<<nd[k], i - 1, final_week>>}, "eq", 0) >>])])

\* Constraint 11: no non-divisional game in the final week
Constraint11(weeks) ==
    LET final_week == weeks - 1
    IN  Flatten([i \in 1..T |->
            LET nd == Ascending(NonDivisionTeams(i - 1))
            IN  Flatten([k \in 1..Len(nd) |->
                    << Con("11", {<<i - 1, nd[k], final_week>>}, "eq", 0),
                       Con("11", {<<nd[k], i - 1, final_week>>}, "eq", 0) >>])])

\* a variant of Constraint 12 that allows 4 games at one venue in 4 weeks
Constraint12_loose(weeks) ==
    Flatten([i \in 1..T |->
        [w1 \in 1..(weeks - 3) |->
            Con("12", HomeVars(i - 1, Others(i - 1), (w1 - 1)..(w1 + 2)), "le", 4)] \o
        [w1 \in 1..(weeks - 3) |->
            Con("12", AwayVars(i - 1, Others(i - 1), (w1 - 1)..(w1 + 2)), "le", 4)]])

\* Constraint 12: at most 3 home and at most 3 away games in 4 consecutive weeks
Constraint12(weeks) ==
    Flatten([i \in 1..T |->
        [w1 \in 1..(weeks - 3) |->
            Con("12", HomeVars(i - 1, Others(i - 1), (w1 - 1)..(w1 + 2)), "le", 3)] \o
        [w1 \in 1..(weeks - 3) |->
            Con("12", AwayVars(i - 1, Others(i - 1), (w1 - 1)..(w1 + 2)), "le", 3)]])

\* the CP-SAT model after "Adding constraints...": every model.Add, in order
BuildModel(weeks, rv) ==
    Constraint1(weeks) \o Constraint2(weeks) \o Constraint3(weeks) \o Constraint4(weeks) \o
    Constraint4b(weeks) \o Constraint5(weeks) \o Constraint5b(weeks) \o Constraint6(rv) \o
    Constraint7(weeks) \o Constraint8(weeks) \o Constraint9(weeks) \o Constraint10(weeks) \o
    Constraint11(weeks) \o Constraint12(weeks)

\* the value of sum(vars) under an assignment
SumOf(c, a) == Cardinality(c.vars \cap a)

\* whether an assignment satisfies one constraint
Holds(c, a) ==
    CASE c.rel = "eq" -> SumOf(c, a) = c.rhs
      [] c.rel = "le" -> SumOf(c, a) <= c.rhs
      [] c.rel = "ge" -> SumOf(c, a) >= c.rhs

\* whether an assignment satisfies every constraint of a model
Satisfies(m, a) == ~(\E k \in 1..Len(m) : ~Holds(m[k], a))


(***************************************************************************)
(* The runs considered: the script's configuration (Scenario A), the same  *)
(* with 10 weeks (Scenario B) and the same with rivalry pairs inside a     *)
(* division (Scenario C)                                                   *)
(***************************************************************************)
ScenarioA == <<14, rivals_configured>>

ScenarioB == <<10, rivals_configured>>

ScenarioC == <<14, rivals_same_division>>

Scenarios == {ScenarioA, ScenarioB, ScenarioC}

\* the model built for each scenario
ModelA == BuildModel(ScenarioA[1], ScenarioA[2])

ModelB == BuildModel(ScenarioB[1], ScenarioB[2])

ModelC == BuildModel(ScenarioC[1], ScenarioC[2])

Models(s) ==
    CASE s = ScenarioA -> ModelA
      [] s = ScenarioB -> ModelB
      [] s = ScenarioC -> ModelC

(***************************************************************************)
(* cp_model.CpSolver.Solve.  The search of CP-SAT is outside the           *)
(* repository; it is modelled by its contract.  OPTIMAL or FEASIBLE is     *)
(* returned only with values that satisfy every constraint of the model,   *)
(* INFEASIBLE only for a model that has no solution, and the time limit    *)
(* may end the call at any moment with status UNKNOWN.  The values the     *)
(* search considers are the start assignments below and what a bounded     *)
(* number of neighbourhood moves makes of them.                            *)
(***************************************************************************)
\* a satisfying assignment of the script's model, week by week as the set
\* of <<home, away>> index pairs
SeedSchedule ==
    <<
       {<<0,4>>, <<2,15>>, <<5,1>>, <<6,13>>, <<7,3>>, <<9,10>>, <<11,8>>, <<14,12>>},
       {<<0,3>>, <<2,14>>, <<4,7>>, <<6,5>>, <<8,10>>, <<9,12>>, <<11,1>>, <<13,15>>},
       {<<1,2>>, <<3,5>>, <<4,8>>, <<6,10>>, <<7,0>>, <<11,9>>, <<12,13>>, <<14,15>>},
       {<<2,0>>, <<3,1>>, <<5,4>>, <<7,6>>, <<9,14>>, <<10,13>>, <<12,8>>, <<15,11>>},
       {<<0,9>>, <<1,10>>, <<4,2>>, <<5,7>>, <<8,11>>, <<12,15>>, <<13,3>>, <<14,6>>},
       {<<0,6>>, <<2,1>>, <<3,4>>, <<8,15>>, <<9,5>>, <<10,7>>, <<11,12>>, <<13,14>>},
       {<<1,7>>, <<3,0>>, <<4,11>>, <<5,8>>, <<6,2>>, <<10,9>>, <<12,14>>, <<15,13>>},
       {<<0,1>>, <<3,15>>, <<5,6>>, <<7,4>>, <<9,8>>, <<12,2>>, <<13,11>>, <<14,10>>},
       {<<2,3>>, <<5,0>>, <<6,4>>, <<7,14>>, <<8,13>>, <<10,11>>, <<12,1>>, <<15,9>>},
       {<<0,12>>, <<1,13>>, <<7,9>>, <<8,6>>, <<10,2>>, <<11,3>>, <<14,5>>, <<15,4>>},
       {<<0,2>>, <<1,6>>, <<3,12>>, <<4,5>>, <<9,11>>, <<10,15>>, <<13,7>>, <<14,8>>},
       {<<2,7>>, <<4,1>>, <<5,11>>, <<6,3>>, <<8,0>>, <<12,10>>, <<13,9>>, <<15,14>>},
       {<<1,3>>, <<2,5>>, <<6,7>>, <<9,4>>, <<10,8>>, <<11,14>>, <<13,12>>, <<15,0>>},
       {<<1,0>>, <<3,2>>, <<4,6>>, <<7,5>>, <<8,9>>, <<11,10>>, <<14,13>>, <<15,12>>}
    >>


\* a satisfying assignment of the model of Scenario C
SeedSameDivision ==
    <<
       {<<0,9>>, <<2,1>>, <<4,6>>, <<7,3>>, <<10,5>>, <<11,8>>, <<12,14>>, <<13,15>>},
       {<<0,15>>, <<3,5>>, <<4,1>>, <<6,2>>, <<7,11>>, <<10,9>>, <<13,12>>, <<14,8>>},
       {<<1,3>>, <<5,2>>, <<6,7>>, <<8,10>>, <<9,15>>, <<11,13>>, <<12,0>>, <<14,4>>},
       {<<3,8>>, <<5,4>>, <<6,0>>, <<7,1>>, <<9,2>>, <<12,11>>, <<13,10>>, <<15,14>>},
       {<<1,9>>, <<2,3>>, <<4,7>>, <<5,0>>, <<8,12>>, <<10,11>>, <<13,14>>, <<15,6>>},
       {<<0,1>>, <<2,7>>, <<4,10>>, <<6,13>>, <<9,8>>, <<11,5>>, <<12,15>>, <<14,3>>},
       {<<2,0>>, <<3,6>>, <<5,7>>, <<8,4>>, <<10,12>>, <<11,9>>, <<13,1>>, <<14,15>>},
       {<<0,4>>, <<1,12>>, <<3,2>>, <<6,5>>, <<7,14>>, <<10,8>>, <<13,9>>, <<15,11>>},
       {<<0,7>>, <<1,5>>, <<2,4>>, <<3,10>>, <<6,11>>, <<8,9>>, <<14,12>>, <<15,13>>},
       {<<1,0>>, <<4,15>>, <<5,14>>, <<8,6>>, <<9,7>>, <<10,2>>, <<11,3>>, <<12,13>>},
       {<<0,3>>, <<2,12>>, <<4,5>>, <<7,6>>, <<8,13>>, <<9,11>>, <<14,10>>, <<15,1>>},
       {<<2,8>>, <<3,1>>, <<6,4>>, <<7,5>>, <<10,15>>, <<11,14>>, <<12,9>>, <<13,0>>},
       {<<0,2>>, <<1,6>>, <<4,3>>, <<5,13>>, <<9,14>>, <<11,10>>, <<12,7>>, <<15,8>>},
       {<<1,2>>, <<3,0>>, <<5,6>>, <<7,4>>, <<8,11>>, <<9,10>>, <<14,13>>, <<15,12>>}
    >>


StartSchedules == {SeedSchedule, SeedSameDivision}

\* the keys with value 1 of a week-by-week schedule, for the weeks of matches
Assignment(s, weeks) ==
    UNION {{<<g[1], g[2], w - 1>> : g \in s[w]} : w \in 1..Min(Len(s), weeks)}

\* the search exchanges two consecutive weeks at most MaxSwaps times
MaxSwaps == 1

\* the search reverses the venue of a game at most MaxFlips times
MaxFlips == 3

\* the teams whose mutual games the search may reverse
FlipTeams == {0, 4, 8}

SwapWeeks(a, w1, w2) ==
    {<<k[1], k[2], IF k[3] = w1 THEN w2 ELSE IF k[3] = w2 THEN w1 ELSE k[3]>> :
        k \in a}

FlipVenue(a, k) == (a \ {k}) \cup {<<k[2], k[1], k[3]>>}

\* the keys of matches in which team i is the home or the away team
KeysOf(i, weeks) ==
    HomeVars(i, Others(i), 0..(weeks - 1)) \cup AwayVars(i, Others(i), 0..(weeks - 1))

RECURSIVE SumRhs(_, _)
SumRhs(m, ks) ==
    IF ks = {} THEN 0
    ELSE LET k == CHOOSE x \in ks : TRUE IN m[k].rhs + SumRhs(m, ks \ {k})

\* two groups of equalities partition the same variables
SamePartition(m, as, bs) ==
    /\ \A k \in as \cup bs : m[k].rel = "eq"
    /\ \A k, l \in as : k # l => m[k].vars \cap m[l].vars = {}
    /\ \A k, l \in bs : k # l => m[k].vars \cap m[l].vars = {}
    /\ UNION {m[k].vars : k \in as} = UNION {m[k].vars : k \in bs}

\* a proof that a model has no solution: for some team the one-game-per-week
\* equalities and the home and away totals count the same variables and
\* require different numbers of games
Refuted(m, weeks) ==
    \E i \in 0..(T - 1) :
        LET as == {k \in 1..Len(m) : m[k].fam = "1" /\ m[k].vars \subseteq KeysOf(i, weeks)}
            bs == {k \in 1..Len(m) : m[k].fam = "5" /\ m[k].vars \subseteq KeysOf(i, weeks)}
        IN  /\ as # {} /\ bs # {}
            /\ SamePartition(m, as, bs)
            /\ SumRhs(m, as) # SumRhs(m, bs)

RefutedA == Refuted(ModelA, ScenarioA[1])

RefutedB == Refuted(ModelB, ScenarioB[1])

RefutedC == Refuted(ModelC, ScenarioC[1])

RefutedModels(s) ==
    CASE s = ScenarioA -> RefutedA
      [] s = ScenarioB -> RefutedB
      [] s = ScenarioC -> RefutedC


(***************************************************************************)
(* The script as a state machine                                           *)
(***************************************************************************)
VARIABLES
    W,               \* the number of weeks
    rivals,          \* the rivalry pairs
    pc,              \* the statement the script is at
    values,          \* the solver's values: the keys of matches with value 1
    swaps,           \* week exchanges made by the search
    flips,           \* venue reversals made by the search
    status,          \* the result of solver.Solve
    outcome,         \* the branch of the status test that printed its message
    games_by_week,   \* the extracted games, in the order of extraction
    team_schedules,  \* the extracted games of every team
    files,           \* the CSV files written
    violations       \* the checks of the validation summary that failed

\* the state of a LiveDraftOptimizer (fantasyScript.py), an object of the
\* draft assistant that the scheduler script never touches
VARIABLES
    draft_state,     \* self.draft_state
    player_rankings, \* self.player_rankings
    recorded,        \* the (player_name, owner) arguments of the record_pick calls
    lifecycle        \* which calls the object has received

draft_vars == <<draft_state, player_rankings, recorded, lifecycle>>

scheduler_vars ==
    <<W, rivals, pc, values, swaps, flips, status, outcome, games_by_week,
      team_schedules, files, violations>>

vars ==
    <<W, rivals, pc, values, swaps, flips, status, outcome, games_by_week,
      team_schedules, files, violations, draft_state, player_rankings,
      recorded, lifecycle>>

\* LiveDraftOptimizer.__init__
LiveDraftOptimizer ==
    /\ draft_state = [picked_players |-> {},
                      available_players |-> << >>,
                      current_round |-> 1,
                      current_pick |-> 1,
                      your_roster |-> << >>,
                      other_rosters |-> [o \in {} |-> << >>],
                      draft_order |-> << >>]
    /\ player_rankings = [n \in {} |-> 0]
    /\ recorded = << >>
    /\ lifecycle = "constructed"

\* the model the script has built for the run's configuration
model == Models(<<W, rivals>>)

Init ==
    /\ \E s \in Scenarios : W = s[1] /\ rivals = s[2]
    /\ pc = "start"
    /\ values = {}
    /\ swaps = 0
    /\ flips = 0
    /\ status = "NONE"
    /\ outcome = "none"
    /\ games_by_week = << >>
    /\ team_schedules = [t \in TeamNames |-> << >>]
    /\ files = {}
    /\ violations = {}
    /\ LiveDraftOptimizer

\* cp_model.CpModel() and the creation of the match variables
CreateModel ==
    /\ pc = "start"
    /\ pc' = "variables"
    /\ UNCHANGED draft_vars
    /\ UNCHANGED <<W, rivals, values, swaps, flips, status, outcome,
                   games_by_week, team_schedules, files, violations>>

\* "Adding constraints...": every model.Add of Constraints 1 to 12
AddConstraints ==
    /\ pc = "variables"
    /\ pc' = "built"
    /\ UNCHANGED draft_vars
    /\ UNCHANGED <<W, rivals, values, swaps, flips, status, outcome,
                   games_by_week, team_schedules, files, violations>>

\* solver.Solve(model) is called and the search starts
StartSolve ==
    /\ pc = "built"
    /\ pc' = "solving"
    /\ \E s \in StartSchedules : values' = Assignment(s, W)
    /\ UNCHANGED draft_vars
    /\ UNCHANGED <<W, rivals, swaps, flips, status, outcome, games_by_week,
                   team_schedules, files, violations>>

\* the search exchanges two consecutive weeks
SearchSwap ==
    /\ pc = "solving"
    /\ swaps < MaxSwaps
    /\ \E w \in 0..(W - 2) : values' = SwapWeeks(values, w, w + 1)
    /\ swaps' = swaps + 1
    /\ UNCHANGED draft_vars
    /\ UNCHANGED <<W, rivals, pc, flips, status, outcome, games_by_week,
                   team_schedules, files, violations>>

\* the search reverses the venue of one game
SearchFlip ==
    /\ pc = "solving"
    /\ flips < MaxFlips
    /\ \E k \in values :
        /\ k[1] \in FlipTeams /\ k[2] \in FlipTeams
        /\ values' = FlipVenue(values, k)
    /\ flips' = flips + 1
    /\ UNCHANGED draft_vars
    /\ UNCHANGED <<W, rivals, pc, swaps, status, outcome, games_by_week,
                   team_schedules, files, violations>>

\* the solver returns values that satisfy the model
ReturnSolution ==
    /\ pc = "solving"
    /\ Satisfies(model, values)
    /\ status' \in {"OPTIMAL", "FEASIBLE"}
    /\ pc' = "solved"
    /\ UNCHANGED draft_vars
    /\ UNCHANGED <<W, rivals, values, swaps, flips, outcome, games_by_week,
                   team_schedules, files, violations>>

\* a variant of the solver that reports infeasibility when it gives up
ReturnInfeasible_unproved ==
    /\ pc = "solving"
    /\ status' = "INFEASIBLE"
    /\ values' = {}
    /\ pc' = "solved"
    /\ UNCHANGED draft_vars
    /\ UNCHANGED <<W, rivals, swaps, flips, outcome, games_by_week,
                   team_schedules, files, violations>>

\* the solver returns with a proof that the model has no solution
ReturnInfeasible ==
    /\ pc = "solving"
    /\ RefutedModels(<<W, rivals>>)
    /\ status' = "INFEASIBLE"
    /\ values' = {}
    /\ pc' = "solved"
    /\ UNCHANGED draft_vars
    /\ UNCHANGED <<W, rivals, swaps, flips, outcome, games_by_week,
                   team_schedules, files, violations>>

\* a variant of the solver without the time limit
Timeout_unlimited ==
    /\ pc = "solving"
    /\ FALSE
    /\ status' = "UNKNOWN"
    /\ values' = {}
    /\ pc' = "solved"
    /\ UNCHANGED draft_vars
    /\ UNCHANGED <<W, rivals, swaps, flips, outcome, games_by_week,
                   team_schedules, files, violations>>

\* max_time_in_seconds = 300 elapses before the solver has decided
Timeout ==
    /\ pc = "solving"
    /\ status' = "UNKNOWN"
    /\ values' = {}
    /\ pc' = "solved"
    /\ UNCHANGED draft_vars
    /\ UNCHANGED <<W, rivals, swaps, flips, outcome, games_by_week,
                   team_schedules, files, violations>>

\* a variant of the status branches with the two failure branches exchanged
OutcomeOf_exchanged(st) ==
    IF st = "OPTIMAL" \/ st = "FEASIBLE" THEN "Solution found"
    ELSE IF st = "INFEASIBLE" THEN "The model is invalid"
    ELSE IF st = "MODEL_INVALID" THEN "No solution exists"
    ELSE "Solver returned status"

\* a variant of the status branches that takes every status without a
\* solution for a proof of infeasibility
OutcomeOf_no_else(st) ==
    IF st = "OPTIMAL" \/ st = "FEASIBLE" THEN "Solution found"
    ELSE IF st = "MODEL_INVALID" THEN "The model is invalid"
    ELSE "No solution exists"

\* the message of the if / elif chain on status
OutcomeOf(st) ==
    IF st = "OPTIMAL" \/ st = "FEASIBLE" THEN "Solution found"
    ELSE IF st = "INFEASIBLE" THEN "No solution exists"
    ELSE IF st = "MODEL_INVALID" THEN "The model is invalid"
    ELSE "Solver returned status"

\* a variant of the status test that extracts unless the status is INFEASIBLE
Branch_unless_infeasible ==
    /\ pc = "solved"
    /\ outcome' = OutcomeOf(status)
    /\ pc' = IF status # "INFEASIBLE" THEN "extract" ELSE "statistics"
    /\ UNCHANGED draft_vars
    /\ UNCHANGED <<W, rivals, values, swaps, flips, status, games_by_week,
                   team_schedules, files, violations>>

\* a variant of the script with the extraction outside the status test
Branch_always_extract ==
    /\ pc = "solved"
    /\ outcome' = OutcomeOf(status)
    /\ pc' = "extract"
    /\ UNCHANGED draft_vars
    /\ UNCHANGED <<W, rivals, values, swaps, flips, status, games_by_week,
                   team_schedules, files, violations>>

\* the if / elif chain on status
Branch ==
    /\ pc = "solved"
    /\ outcome' = OutcomeOf(status)
    /\ pc' = IF status = "OPTIMAL" \/ status = "FEASIBLE" THEN "extract" ELSE "statistics"
    /\ UNCHANGED draft_vars
    /\ UNCHANGED <<W, rivals, values, swaps, flips, status, games_by_week,
                   team_schedules, files, violations>>


(***************************************************************************)
(* Extraction of the schedule                                              *)
(***************************************************************************)
\* a variant of the classification that compares the week with 10, the
\* number of the rivalry week, instead of its index
GameType_week_number(i, j, w, rv) ==
    LET home_team == idx_to_team[i]
        away_team == idx_to_team[j]
        home_div == div_of[home_team]
        away_div == div_of[away_team]
    IN  IF home_div = away_div THEN "Division"
        ELSE IF away_div = opposite[home_div] THEN "Opposite"
        ELSE IF w = 10 /\ \E k \in 1..Len(rv) :
                    \/ <<home_team, away_team>> = rv[k]
                    \/ <<away_team, home_team>> = rv[k]
             THEN "Rivalry"
        ELSE "Cross-Division"

\* a variant of the classification that knows a rivalry pair in the order
\* of the rivals list only
GameType_in_list_order(i, j, w, rv) ==
    LET home_team == idx_to_team[i]
        away_team == idx_to_team[j]
        home_div == div_of[home_team]
        away_div == div_of[away_team]
    IN  IF home_div = away_div THEN "Division"
        ELSE IF away_div = opposite[home_div] THEN "Opposite"
        ELSE IF w = 9 /\ \E k \in 1..Len(rv) : <<home_team, away_team>> = rv[k]
             THEN "Rivalry"
        ELSE "Cross-Division"

\* the game type of "team i hosts team j in week w"
GameType(i, j, w, rv) ==
    LET home_team == idx_to_team[i]
        away_team == idx_to_team[j]
        home_div == div_of[home_team]
        away_div == div_of[away_team]
    IN  IF home_div = away_div THEN "Division"
        ELSE IF away_div = opposite[home_div] THEN "Opposite"
        ELSE IF w = 9 /\ \E k \in 1..Len(rv) :
                    \/ <<home_team, away_team>> = rv[k]
                    \/ <<away_team, home_team>> = rv[k]
             THEN "Rivalry"
        ELSE "Cross-Division"

\* a variant of the extraction loops with the loop over j outside the loop
\* over i
RECURSIVE KeysInOrder_away_first(_)
KeysInOrder_away_first(ks) ==
    IF ks = {} THEN << >>
    ELSE LET m == CHOOSE x \in ks : \A y \in ks :
                      x[2] < y[2] \/ (x[2] = y[2] /\ x[1] <= y[1])
         IN  <<m>> \o KeysInOrder_away_first(ks \ {m})

\* the keys with value 1 of week w, in the order of the loops over i and j
RECURSIVE KeysInOrder(_)
KeysInOrder(ks) ==
    IF ks = {} THEN << >>
    ELSE LET m == CHOOSE x \in ks : \A y \in ks :
                      x[1] < y[1] \/ (x[1] = y[1] /\ x[2] <= y[2])
         IN  <<m>> \o KeysInOrder(ks \ {m})

\* games_by_week after the extraction loops
ExtractGames(a, weeks, rv) ==
    Flatten([w \in 1..weeks |->
        LET ks == KeysInOrder({k \in a : k[3] = w - 1})
        IN  [n \in 1..Len(ks) |->
                [Week |-> w,
                 Away |-> idx_to_team[ks[n][2]],
                 Home |-> idx_to_team[ks[n][1]],
                 Type |-> GameType(ks[n][1], ks[n][2], w - 1, rv)]]])

\* a variant of the extraction that appends to the home team's list only
ExtractTeam_home_only(games, team) ==
    LET mine == SelectSeq(games, LAMBDA g : g.Home = team)
    IN  [n \in 1..Len(mine) |->
            [Week |-> mine[n].Week, Opponent |-> mine[n].Away,
             Venue |-> "Home", Type |-> mine[n].Type]]

\* team_schedules[team] after the extraction loops
ExtractTeam(games, team) ==
    LET mine == SelectSeq(games, LAMBDA g : g.Home = team \/ g.Away = team)
    IN  [n \in 1..Len(mine) |->
            IF mine[n].Home = team
            THEN [Week |-> mine[n].Week, Opponent |-> mine[n].Away,
                  Venue |-> "Home", Type |-> mine[n].Type]
            ELSE [Week |-> mine[n].Week, Opponent |-> mine[n].Home,
                  Venue |-> "Away", Type |-> mine[n].Type]]

\* "Extract the schedule"
Extract ==
    /\ pc = "extract"
    /\ games_by_week' = ExtractGames(values, W, rivals)
    /\ team_schedules' = [t \in TeamNames |-> ExtractTeam(games_by_week', t)]
    /\ pc' = "export"
    /\ UNCHANGED draft_vars
    /\ UNCHANGED <<W, rivals, values, swaps, flips, status, outcome, files,
                   violations>>

\* the rows of team_schedule_grid.csv: for every team and week the first
\* entry of that week in the team's list, or "BYE"
team_grid(ts) ==
    [t \in TeamNames |->
        [week \in 1..14 |->
            LET found == {n \in 1..Len(ts[t]) : ts[t][n].Week = week}
            IN  IF found = {} THEN "BYE"
                ELSE LET game == ts[t][CHOOSE n \in found : \A m \in found : n <= m]
                     IN  <<IF game.Venue = "Home" THEN "vs" ELSE "@",
                           game.Opponent>>]]

\* "Creating CSV files..."
Export ==
    /\ pc = "export"
    /\ files' = {"schedule_by_week.csv", "schedule_by_team.csv",
                 "team_schedule_grid.csv"}
    /\ pc' = "validate"
    /\ UNCHANGED draft_vars
    /\ UNCHANGED <<W, rivals, values, swaps, flips, status, outcome,
                   games_by_week, team_schedules, violations>>

(***************************************************************************)
(* VALIDATION SUMMARY: each check of the script, TRUE when it prints no    *)
(* cross for any team, pair or game                                        *)
(***************************************************************************)
\* len([g for g in gs if p(g)])
Count(gs, p(_)) == Len(SelectSeq(gs, p))

\* Total Home/Away Balance
CheckBalance(ts) ==
    \A t \in TeamNames :
        /\ Count(ts[t], LAMBDA g : g.Venue = "Home") = 7
        /\ Count(ts[t], LAMBDA g : g.Venue = "Away") = 7

\* Divisional Home/Away Balance
CheckDivBalance(ts) ==
    \A t \in TeamNames :
        /\ Count(ts[t], LAMBDA g : g.Venue = "Home" /\ g.Type = "Division") = 3
        /\ Count(ts[t], LAMBDA g : g.Venue = "Away" /\ g.Type = "Division") = 3

\* Rivalry Week 10: one entry of rivalry_found per game of week 10 that
\* matches a rivalry pair
CheckRivalryWeek(gw, rv) ==
    LET week_10_games == SelectSeq(gw, LAMBDA g : g.Week = 10)
        rivalry_found ==
            SelectSeq(week_10_games, LAMBDA g :
                \E k \in 1..Len(rv) :
                    <<g.Home, g.Away>> = rv[k] \/ <<g.Away, g.Home>> = rv[k])
    IN  Len(rivalry_found) = Len(rv)

\* the pairs (team1, team2) of the loops "for i in range(4): for j in range(i+1, 4)"
ValidatedDivPairs ==
    {<<teams_by_div[d][p[1]], teams_by_div[d][p[2]]>> :
        d \in DOMAIN teams_by_div,
        p \in {q \in (1..4) \X (1..4) : q[1] < q[2]}}

\* Divisional Matchup Balance: team1_home and team2_home are both set
CheckDivMatchup(ts) ==
    \A p \in ValidatedDivPairs :
        /\ \E n \in 1..Len(ts[p[1]]) :
              ts[p[1]][n].Opponent = p[2] /\ ts[p[1]][n].Venue = "Home"
        /\ \E n \in 1..Len(ts[p[1]]) :
              ts[p[1]][n].Opponent = p[2] /\ ts[p[1]][n].Venue # "Home"

\* a variant of the separation check that rejects a gap of exactly 3 weeks
CheckSeparation_strict(ts) ==
    \A p \in ValidatedDivPairs :
        LET games == SelectSeq(ts[p[1]], LAMBDA g : g.Opponent = p[2])
            lo == Min(games[1].Week, games[2].Week)
            hi == games[1].Week + games[2].Week - lo
        IN  Len(games) = 2 => hi - lo > 3

\* Division Game Separation: only a pair with exactly two games is judged
CheckSeparation(ts) ==
    \A p \in ValidatedDivPairs :
        LET games == SelectSeq(ts[p[1]], LAMBDA g : g.Opponent = p[2])
            lo == Min(games[1].Week, games[2].Week)
            hi == games[1].Week + games[2].Week - lo
        IN  Len(games) = 2 => hi - lo >= 3

\* Consecutive Division Games: at most 2 in every window w1..w1+2, w1 in 1..12
CheckDensityCap(ts) ==
    \A t \in TeamNames : \A w1 \in 1..12 :
        Count(ts[t], LAMBDA g : g.Type = "Division" /\ g.Week \in w1..(w1 + 2)) <= 2

\* Division Games in Last 8 Weeks
CheckDensityFloor(ts) ==
    \A t \in TeamNames :
        Count(ts[t], LAMBDA g : g.Type = "Division" /\ g.Week >= 7) >= 3

\* Final Week Drama: every game of week 14 is divisional
CheckFinalWeek(gw) ==
    \A n \in 1..Len(gw) : gw[n].Week = 14 => gw[n].Type = "Division"

\* sorted(games, key = Week): a stable sort
RECURSIVE SortedByWeek(_)
SortedByWeek(gs) ==
    IF gs = << >> THEN << >>
    ELSE LET front == SortedByWeek(SubSeq(gs, 1, Len(gs) - 1))
             g == gs[Len(gs)]
             before == SelectSeq(front, LAMBDA x : x.Week <= g.Week)
             after == SelectSeq(front, LAMBDA x : x.Week > g.Week)
         IN  before \o <<g>> \o after

\* a variant of the streak loop without the check of the final streak
RECURSIVE StreakScan_no_final(_, _, _, _, _)
StreakScan_no_final(venues, i, current_venue, current_streak, found) ==
    IF i > Len(venues) THEN found
    ELSE IF venues[i] = current_venue
         THEN StreakScan_no_final(venues, i + 1, current_venue, current_streak + 1, found)
         ELSE StreakScan_no_final(venues, i + 1, venues[i], 1, found \/ current_streak > 3)

\* the streak loop over venues: whether a streak longer than 3 is recorded
RECURSIVE StreakScan(_, _, _, _, _)
StreakScan(venues, i, current_venue, current_streak, found) ==
    IF i > Len(venues) THEN found \/ current_streak > 3
    ELSE IF venues[i] = current_venue
         THEN StreakScan(venues, i + 1, current_venue, current_streak + 1, found)
         ELSE StreakScan(venues, i + 1, venues[i], 1, found \/ current_streak > 3)

StreakViolation(gs) ==
    LET team_games == SortedByWeek(gs)
        venues == [n \in 1..Len(team_games) |-> team_games[n].Venue]
    IN  StreakScan(venues, 2, IF venues = << >> THEN "None" ELSE venues[1], 1, FALSE)

\* Consecutive Home/Away Balance
CheckStreaks(ts) == \A t \in TeamNames : ~StreakViolation(ts[t])

\* Non-Division Matchups: no opponent of another division more than once
CheckNonDivision(ts) ==
    \A t \in TeamNames : \A o \in TeamNames :
        div_of[o] # div_of[t] =>
            Count(ts[t], LAMBDA g : g.Opponent = o) <= 1

\* Opponent Breakdown by Team
CheckBreakdown(ts) ==
    \A t \in TeamNames :
        /\ Count(ts[t], LAMBDA g : g.Type = "Division") = 6
        /\ Count(ts[t], LAMBDA g : g.Type = "Opposite") = 4
        /\ Count(ts[t], LAMBDA g : g.Type \in {"Cross-Division", "Rivalry"}) = 4

\* the checks that print a cross
FailedChecks(gw, ts, rv) ==
    {c \in {"Total Home/Away Balance", "Divisional Home/Away Balance",
            "Rivalry Week 10", "Divisional Matchup Balance",
            "Division Game Separation", "Consecutive Division Games",
            "Division Games in Last 8 Weeks", "Final Week Drama",
            "Consecutive Home/Away Balance", "Non-Division Matchups",
            "Opponent Breakdown by Team"} :
        CASE c = "Total Home/Away Balance" -> ~CheckBalance(ts)
          [] c = "Divisional Home/Away Balance" -> ~CheckDivBalance(ts)
          [] c = "Rivalry Week 10" -> ~CheckRivalryWeek(gw, rv)
          [] c = "Divisional Matchup Balance" -> ~CheckDivMatchup(ts)
          [] c = "Division Game Separation" -> ~CheckSeparation(ts)
          [] c = "Consecutive Division Games" -> ~CheckDensityCap(ts)
          [] c = "Division Games in Last 8 Weeks" -> ~CheckDensityFloor(ts)
          [] c = "Final Week Drama" -> ~CheckFinalWeek(gw)
          [] c = "Consecutive Home/Away Balance" -> ~CheckStreaks(ts)
          [] c = "Non-Division Matchups" -> ~CheckNonDivision(ts)
          [] c = "Opponent Breakdown by Team" -> ~CheckBreakdown(ts)}

\* the validation summary
Validate ==
    /\ pc = "validate"
    /\ violations' = FailedChecks(games_by_week, team_schedules, rivals)
    /\ pc' = "statistics"
    /\ UNCHANGED draft_vars
    /\ UNCHANGED <<W, rivals, values, swaps, flips, status, outcome,
                   games_by_week, team_schedules, files>>

\* "Solver statistics:", the end of the script
Statistics ==
    /\ pc = "statistics"
    /\ pc' = "done"
    /\ UNCHANGED draft_vars
    /\ UNCHANGED <<W, rivals, values, swaps, flips, status, outcome,
                   games_by_week, team_schedules, files, violations>>

Next ==
    \/ CreateModel
    \/ AddConstraints
    \/ StartSolve
    \/ SearchSwap
    \/ SearchFlip
    \/ ReturnSolution
    \/ ReturnInfeasible
    \/ Timeout
    \/ Branch
    \/ Extract
    \/ Export
    \/ Validate
    \/ Statistics

Spec == Init /\ [][Next]_vars


(***************************************************************************)
(* Properties of the produced schedules                                    *)
(***************************************************************************)
\* a schedule has been produced: the solver reported a solution and the
\* extraction loops have run
Produced ==
    /\ status \in {"OPTIMAL", "FEASIBLE"}
    /\ pc \in {"export", "validate", "statistics", "done"}

\* the positions in games_by_week of the games of team t
GamesOf(t) ==
    {n \in 1..Len(games_by_week) :
        games_by_week[n].Home = t \/ games_by_week[n].Away = t}

\* the positions in games_by_week of the games between teams a and b
GamesBetween(a, b) ==
    {n \in 1..Len(games_by_week) :
        \/ games_by_week[n].Home = a /\ games_by_week[n].Away = b
        \/ games_by_week[n].Home = b /\ games_by_week[n].Away = a}

\* the positions of the games team t hosts, and of those it plays away
HomeGamesOf(t) == {n \in 1..Len(games_by_week) : games_by_week[n].Home = t}

AwayGamesOf(t) == {n \in 1..Len(games_by_week) : games_by_week[n].Away = t}

\* the positions of the games of team t against a team of its own division
DivisionGamesOf(t) ==
    {n \in GamesOf(t) :
        div_of[games_by_week[n].Home] = div_of[games_by_week[n].Away]}

InWeeks(ns, lo, hi) == {n \in ns : games_by_week[n].Week \in lo..hi}

SameDivision(a, b) == a # b /\ div_of[a] = div_of[b]

OppositeDivisions(a, b) == div_of[b] = opposite[div_of[a]]

\* C1: in every produced schedule no team plays itself, every team plays
\* exactly one game in every week, every week has exactly 8 games, and
\* every team has exactly 7 home games and 7 away games
C1_OneGamePerWeekAndBalance ==
    Produced =>
        /\ \A n \in 1..Len(games_by_week) :
              games_by_week[n].Home # games_by_week[n].Away
        /\ \A t \in TeamNames : \A w \in 1..W :
              Cardinality(InWeeks(GamesOf(t), w, w)) = 1
        /\ \A w \in 1..W :
              Cardinality(InWeeks(1..Len(games_by_week), w, w)) = 8
        /\ \A t \in TeamNames :
              /\ Cardinality(GamesOf(t)) = 14
              /\ Cardinality(HomeGamesOf(t)) = 7
              /\ Cardinality(AwayGamesOf(t)) = 7

\* a schedule of the 14-week configuration that the search reached by a move
C1_Witness == Produced /\ W = 14 /\ swaps > 0 /\ Len(games_by_week) = 112

\* the difference of the weeks of the two games at positions ns
WeekGap(ns) ==
    LET ws == {games_by_week[n].Week : n \in ns}
    IN  IF Cardinality(ws) < 2 THEN 0
        ELSE (CHOOSE x \in ws : \A y \in ws : y <= x) -
             (CHOOSE x \in ws : \A y \in ws : x <= y)

\* C2: in every produced schedule every pair of teams of one division meets
\* exactly twice, once at each team's home, in weeks at least 3 apart
C2_DivisionDoubleRoundRobin ==
    Produced =>
        \A a \in TeamNames : \A b \in TeamNames :
            SameDivision(a, b) =>
                /\ Cardinality(GamesBetween(a, b)) = 2
                /\ Cardinality(GamesBetween(a, b) \cap HomeGamesOf(a)) = 1
                /\ Cardinality(GamesBetween(a, b) \cap HomeGamesOf(b)) = 1
                /\ WeekGap(GamesBetween(a, b)) >= 3

\* a produced schedule in which a division pair meets exactly 3 weeks apart
C2_Witness ==
    /\ Produced
    /\ \E a \in TeamNames : \E b \in TeamNames :
          SameDivision(a, b) /\ WeekGap(GamesBetween(a, b)) = 3

\* C3: in every produced schedule every pair of teams of opposite divisions
\* meets exactly once, every other pair of teams of different divisions
\* meets at most once, and every one of the 8 configured rivalry pairs
\* meets exactly once, in week 10
C3_CrossDivisionAndRivalry ==
    Produced =>
        /\ \A a \in TeamNames : \A b \in TeamNames :
              div_of[a] # div_of[b] =>
                  IF OppositeDivisions(a, b)
                  THEN Cardinality(GamesBetween(a, b)) = 1
                  ELSE Cardinality(GamesBetween(a, b)) <= 1
        /\ rivals = rivals_configured =>
              \A k \in 1..Len(rivals) :
                  /\ Cardinality(GamesBetween(rivals[k][1], rivals[k][2])) = 1
                  /\ \A n \in GamesBetween(rivals[k][1], rivals[k][2]) :
                        games_by_week[n].Week = 10

\* a produced schedule of the configured league with its rivalry games
C3_Witness ==
    /\ Produced
    /\ rivals = rivals_configured
    /\ Cardinality({n \in 1..Len(games_by_week) :
                        games_by_week[n].Type = "Rivalry"}) = 8

\* C4: in every produced schedule every team plays at most 2 divisional
\* games in weeks w..w+2 for every w in 1..12, and at least 3 divisional
\* games in weeks 7..14
C4_DivisionalDensity ==
    Produced =>
        \A t \in TeamNames :
            /\ \A w \in 1..12 :
                  Cardinality(InWeeks(DivisionGamesOf(t), w, w + 2)) <= 2
            /\ Cardinality(InWeeks(DivisionGamesOf(t), 7, 14)) >= 3

\* a produced schedule with a team at the cap and a team at the floor
C4_Witness ==
    /\ Produced
    /\ \E t \in TeamNames : \E w \in 1..12 :
          Cardinality(InWeeks(DivisionGamesOf(t), w, w + 2)) = 2
    /\ \E t \in TeamNames :
          Cardinality(InWeeks(DivisionGamesOf(t), 7, 14)) = 3

\* C5: in every produced schedule every game of week 14 is between two teams
\* of one division, there are 8 such games, and every team plays one
C5_FinalWeekDivisional ==
    Produced =>
        /\ \A n \in InWeeks(1..Len(games_by_week), 14, 14) :
              SameDivision(games_by_week[n].Home, games_by_week[n].Away)
        /\ Cardinality(InWeeks(1..Len(games_by_week), 14, 14)) = 8
        /\ \A t \in TeamNames :
              Cardinality(InWeeks(DivisionGamesOf(t), 14, 14)) = 1

\* a produced schedule whose week 13 has a game between two divisions
C5_Witness ==
    /\ Produced
    /\ \E n \in InWeeks(1..Len(games_by_week), 13, 13) :
          ~SameDivision(games_by_week[n].Home, games_by_week[n].Away)
    /\ InWeeks(1..Len(games_by_week), 14, 14) # {}

\* C6: in every produced schedule every team has at most 3 home games and at
\* most 3 away games in weeks w..w+3, for every w in 1..11
C6_StreakCap ==
    Produced =>
        \A t \in TeamNames : \A w \in 1..11 :
            /\ Cardinality(InWeeks(HomeGamesOf(t), w, w + 3)) <= 3
            /\ Cardinality(InWeeks(AwayGamesOf(t), w, w + 3)) <= 3

\* a produced schedule with 3 home games of a team in 4 consecutive weeks
\* and 3 away games of a team in 4 consecutive weeks
C6_Witness ==
    /\ Produced
    /\ \E t \in TeamNames : \E w \in 1..11 :
          Cardinality(InWeeks(HomeGamesOf(t), w, w + 3)) = 3
    /\ \E t \in TeamNames : \E w \in 1..11 :
          Cardinality(InWeeks(AwayGamesOf(t), w, w + 3)) = 3

\* the positions of the games of team t against the opposite division
OppositeGamesOf(t) ==
    {n \in GamesOf(t) :
        OppositeDivisions(games_by_week[n].Home, games_by_week[n].Away)}

\* C7: in every produced schedule every team hosts exactly 2 of its 4 games
\* against the teams of its opposite division and visits in the other 2
C7_OppositeHomeBalance ==
    Produced =>
        \A t \in TeamNames :
            /\ Cardinality(OppositeGamesOf(t)) = 4
            /\ Cardinality(OppositeGamesOf(t) \cap HomeGamesOf(t)) = 2
            /\ Cardinality(OppositeGamesOf(t) \cap AwayGamesOf(t)) = 2

\* a produced schedule in which the teams whose venues the search reverses
\* have played their opposite-division games
C7_Witness ==
    /\ Produced
    /\ \A i \in FlipTeams : Cardinality(OppositeGamesOf(idx_to_team[i])) = 4
    /\ \E n \in 1..Len(games_by_week) : games_by_week[n].Type = "Opposite"

\* the scenario the run was configured with
InScenario(s) == <<W, rivals>> = s

\* the run has ended and the solver reported a solution
EndedFeasible == pc = "done" /\ status \in {"OPTIMAL", "FEASIBLE"}

\* the run has ended and the solver ran out of its 300 seconds
EndedTimeout == pc = "done" /\ status = "UNKNOWN"

\* some assignment satisfies every constraint of Scenario A
SatisfiableA ==
    \E s \in StartSchedules : Satisfies(ModelA, Assignment(s, ScenarioA[1]))

\* C8 as stated: every run of Scenario A ends Feasible with zero violations
C8_AlwaysFeasible ==
    (InScenario(ScenarioA) /\ pc = "done") =>
        (status \in {"OPTIMAL", "FEASIBLE"} /\ violations = {})

\* C8: in Scenario A some assignment satisfies all constraint families, the
\* solver never reports Infeasible, a run ends either with a solution or
\* with the time limit elapsed (status UNKNOWN, no schedule), and whenever
\* it ends with a solution the validator reports zero violations
C8_FeasibleUnlessTimeout ==
    InScenario(ScenarioA) =>
        /\ SatisfiableA
        /\ status \notin {"INFEASIBLE", "MODEL_INVALID"}
        /\ pc = "done" => EndedFeasible \/ EndedTimeout
        /\ EndedFeasible =>
              /\ outcome = "Solution found"
              /\ Len(games_by_week) = 112
              /\ violations = {}
        /\ EndedTimeout =>
              /\ outcome = "Solver returned status"
              /\ games_by_week = << >>
              /\ files = {}

\* a run of Scenario A that ended with a validated schedule
C8_Witness ==
    /\ InScenario(ScenarioA)
    /\ EndedFeasible
    /\ status = "FEASIBLE"
    /\ violations = {}
    /\ files # {}

\* C9 as stated: every run of Scenario B ends Infeasible
C9_AlwaysInfeasible ==
    (InScenario(ScenarioB) /\ pc = "done") => status = "INFEASIBLE"

\* C9: in Scenario B (10 weeks) no assignment satisfies the constraint set
\* (the weekly games of a team sum to 10, its home and away games to 14),
\* the solver never reports a solution and no schedule is extracted or
\* exported; a run ends Infeasible ("No solution exists") unless the time
\* limit elapses first (status UNKNOWN)
C9_InfeasibleUnlessTimeout ==
    InScenario(ScenarioB) =>
        /\ RefutedB
        /\ pc = "solving" => ~Satisfies(ModelB, values)
        /\ status \notin {"OPTIMAL", "FEASIBLE", "MODEL_INVALID"}
        /\ games_by_week = << >> /\ files = {}
        /\ pc = "done" =>
              \/ status = "INFEASIBLE" /\ outcome = "No solution exists"
              \/ status = "UNKNOWN" /\ outcome = "Solver returned status"

\* a run of Scenario B that ended with the infeasibility verdict
C9_Witness ==
    /\ InScenario(ScenarioB)
    /\ pc = "done"
    /\ status = "INFEASIBLE"
    /\ outcome = "No solution exists"
    /\ swaps + flips > 0

\* a rivalry pair whose two teams are in one division
SameDivisionRivalry ==
    \E k \in 1..Len(rivals) : div_of[rivals[k][1]] = div_of[rivals[k][2]]

\* C10 as stated: with a rivalry pair inside one division the run stops
\* before any constraint is built and never reaches the solver
C10_RejectsSameDivisionRivalry ==
    SameDivisionRivalry =>
        /\ pc \in {"start", "variables"}
        /\ status = "NONE"
        /\ files = {}

\* C11: a run whose 300 seconds elapse (status UNKNOWN) is never reported as
\* infeasible and never as a found solution: "No solution exists" is the
\* outcome only for status INFEASIBLE, and with status UNKNOWN the outcome
\* is "Solver returned status" and nothing is extracted or exported
C11_TimeoutDistinctFromInfeasible ==
    /\ outcome = "No solution exists" => status = "INFEASIBLE"
    /\ outcome = "Solution found" => status \in {"OPTIMAL", "FEASIBLE"}
    /\ status = "UNKNOWN" =>
          /\ outcome \in {"none", "Solver returned status"}
          /\ pc \in {"solved", "statistics", "done"}
          /\ games_by_week = << >>
          /\ files = {}

\* a run that timed out has printed its outcome and is about to print the
\* solver statistics
C11_Witness ==
    /\ status = "UNKNOWN"
    /\ pc = "statistics"
    /\ outcome = "Solver returned status"

(***************************************************************************)
(* The validation summary as a function of the schedule it is given: the   *)
(* extraction and the checks applied to schedules that differ from a       *)
(* solution by exchanged weeks and reversed venues                         *)
(***************************************************************************)
InitValidator ==
    /\ W = ScenarioA[1]
    /\ rivals = ScenarioA[2]
    /\ pc = "given"
    /\ values = Assignment(SeedSchedule, ScenarioA[1])
    /\ swaps = 0
    /\ flips = 0
    /\ status = "NONE"
    /\ outcome = "none"
    /\ games_by_week = << >>
    /\ team_schedules = [t \in TeamNames |-> << >>]
    /\ files = {}
    /\ violations = {}
    /\ LiveDraftOptimizer

\* two consecutive weeks of the given schedule are exchanged
GivenSwap ==
    /\ pc = "given"
    /\ swaps < MaxSwaps
    /\ \E w \in 0..(W - 2) : values' = SwapWeeks(values, w, w + 1)
    /\ swaps' = swaps + 1
    /\ UNCHANGED draft_vars
    /\ UNCHANGED <<W, rivals, pc, flips, status, outcome, games_by_week,
                   team_schedules, files, violations>>

\* the venue of one game of the given schedule is reversed
GivenFlip ==
    /\ pc = "given"
    /\ flips < MaxFlips
    /\ \E k \in values :
        /\ k[1] \in FlipTeams /\ k[2] \in FlipTeams
        /\ values' = FlipVenue(values, k)
    /\ flips' = flips + 1
    /\ UNCHANGED draft_vars
    /\ UNCHANGED <<W, rivals, pc, swaps, status, outcome, games_by_week,
                   team_schedules, files, violations>>

\* the extraction loops run on the given schedule
ExtractGiven ==
    /\ pc = "given"
    /\ games_by_week' = ExtractGames(values, W, rivals)
    /\ team_schedules' = [t \in TeamNames |-> ExtractTeam(games_by_week', t)]
    /\ pc' = "validate"
    /\ UNCHANGED draft_vars
    /\ UNCHANGED <<W, rivals, values, swaps, flips, status, outcome, files,
                   violations>>

NextValidator == GivenSwap \/ GivenFlip \/ ExtractGiven \/ Validate

ValidatorSpec == InitValidator /\ [][NextValidator]_vars

\* the families of the model that the given schedule violates
ViolatedFamilies ==
    {model[k].fam : k \in {n \in 1..Len(model) : ~Holds(model[n], values)}}

\* C12: every schedule that violates a constraint family is reported by the
\* validation summary: no violating schedule passes with zero violations
C12_ValidatorCatchesEveryFamily ==
    (pc = "statistics" /\ ViolatedFamilies # {}) => violations # {}

\* the validation summary has run on the extracted schedule
Validated == pc \in {"statistics", "done"} /\ games_by_week # << >>

\* C13: no schedule file is written before every validation check has run
\* on the extracted schedule, and a schedule that fails a check is never
\* exported
C13_ValidationPrecedesExport ==
    files # {} => (Validated /\ violations = {})

\* game g comes before game h in the order of the extraction loops: weeks
\* ascending, then the index of the home team, then that of the away team
ComesBefore(g, h) ==
    \/ g.Week < h.Week
    \/ g.Week = h.Week /\ idx[g.Home] < idx[h.Home]
    \/ g.Week = h.Week /\ g.Home = h.Home /\ idx[g.Away] < idx[h.Away]

\* the match variable a game record stands for
KeyOf(g) == <<idx[g.Home], idx[g.Away], g.Week - 1>>

\* C14: the extracted lists are determined by the solved assignment alone:
\* games_by_week lists exactly the match variables with value 1, once each,
\* strictly ascending by week, home team index and away team index, and
\* every team's list holds exactly that team's games in ascending weeks with
\* the opponent, the venue and the type of the game
C14_ExtractionDeterministic ==
    Produced =>
        /\ \A n \in 1..(Len(games_by_week) - 1) :
              ComesBefore(games_by_week[n], games_by_week[n + 1])
        /\ {KeyOf(games_by_week[n]) : n \in 1..Len(games_by_week)} = values
        /\ \A n \in 1..Len(games_by_week) :
              /\ games_by_week[n].Type = "Division" <=>
                    SameDivision(games_by_week[n].Home, games_by_week[n].Away)
              /\ games_by_week[n].Type = "Opposite" <=>
                    OppositeDivisions(games_by_week[n].Home, games_by_week[n].Away)
        /\ \A t \in TeamNames :
              /\ Len(team_schedules[t]) = Cardinality(GamesOf(t))
              /\ \A n \in 1..(Len(team_schedules[t]) - 1) :
                    team_schedules[t][n].Week < team_schedules[t][n + 1].Week
              /\ \A n \in GamesOf(t) : \E m \in 1..Len(team_schedules[t]) :
                    team_schedules[t][m] =
                        [Week |-> games_by_week[n].Week,
                         Opponent |-> IF games_by_week[n].Home = t
                                      THEN games_by_week[n].Away
                                      ELSE games_by_week[n].Home,
                         Venue |-> IF games_by_week[n].Home = t
                                   THEN "Home" ELSE "Away",
                         Type |-> games_by_week[n].Type]

\* an extracted schedule with two consecutive games of one week whose away
\* teams are in descending index order
C14_Witness ==
    /\ Produced
    /\ \E n \in 1..(Len(games_by_week) - 1) :
          /\ games_by_week[n].Week = games_by_week[n + 1].Week
          /\ idx[games_by_week[n].Away] > idx[games_by_week[n + 1].Away]

\* the constraints have been added to the model
ConstraintsAdded == pc \notin {"start", "variables"}

\* the constraint at position k without its family label
Emitted(k) == <<model[k].vars, model[k].rel, model[k].rhs>>

\* C16: the builder emits every constraint once: no two positions of the
\* model hold the same constraint, and no pair of teams is constrained both
\* by the divisional round robin (Constraint 3) and by the non-division
\* at-most-once family (Constraint 10)
C16_NoDuplicateConstraint ==
    ConstraintsAdded =>
        /\ Cardinality({Emitted(k) : k \in 1..Len(model)}) = Len(model)
        /\ \A a \in 1..Len(model) : \A b \in 1..Len(model) :
              (model[a].fam = "3" /\ model[b].fam = "10") =>
                  model[a].vars \cap model[b].vars = {}

\* the match variables of a model of the given number of weeks
MatchKeys(weeks) ==
    {k \in (0..(T - 1)) \X (0..(T - 1)) \X (0..(weeks - 1)) : k[1] # k[2]}

\* the solver has reported a solution
Solved == status \in {"OPTIMAL", "FEASIBLE"}

FairSpec == Spec /\ WF_vars(Timeout)

\* the statuses solver.Solve returns: Solved, Infeasible, TimedOut
TerminalStatuses == {"OPTIMAL", "FEASIBLE", "INFEASIBLE", "UNKNOWN"}

\* one step of the script respects the life cycle of the search: the search
\* starts from the built model only, it is left only for the returned
\* state, the status is set once, on return, to a terminal status, and from
\* then on neither the status nor the values change
SearchStep ==
    /\ pc' = "solving" => pc \in {"built", "solving"}
    /\ pc = "solving" => pc' \in {"solving", "solved"}
    /\ status' # status =>
          /\ pc = "solving" /\ pc' = "solved"
          /\ status = "NONE"
          /\ status' \in TerminalStatuses
    /\ (pc \in {"solving", "solved"}) => (status = "NONE" <=> pc = "solving")
    /\ status # "NONE" => values' = values

InitAssignment ==
    /\ W = ScenarioA[1]
    /\ rivals = ScenarioA[2]
    /\ pc = "assignment"
    /\ values = Assignment(SeedSchedule, ScenarioA[1])
    /\ swaps = 0
    /\ flips = 0
    /\ status = "NONE"
    /\ outcome = "none"
    /\ games_by_week = << >>
    /\ team_schedules = [t \in TeamNames |-> << >>]
    /\ files = {}
    /\ violations = {}
    /\ LiveDraftOptimizer

\* two games of one week exchange their away teams, or pair their two home
\* teams and their two away teams
ChangeOpponents ==
    /\ pc = "assignment"
    /\ \E k1 \in values : \E k2 \in values :
        /\ k1 # k2
        /\ k1[3] = k2[3]
        /\ \/ values' = (values \ {k1, k2}) \cup
                        {<<k1[1], k2[2], k1[3]>>, <<k2[1], k1[2], k1[3]>>}
           \/ values' = (values \ {k1, k2}) \cup
                        {<<k1[1], k2[1], k1[3]>>, <<k1[2], k2[2], k1[3]>>}
    /\ pc' = "changed"
    /\ UNCHANGED draft_vars
    /\ UNCHANGED <<W, rivals, swaps, flips, status, outcome, games_by_week,
                   team_schedules, files, violations>>

NextAssignment == ChangeOpponents

AssignmentSpec == InitAssignment /\ [][NextAssignment]_vars

\* every constraint of family f holds on the assignment
FamilyHolds(f) ==
    ~(\E k \in 1..Len(model) : model[k].fam = f /\ ~Holds(model[k], values))

\* every rivalry pair meets in the rivalry week only
RivalsMeetInRivalryWeekOnly ==
    \A k \in 1..Len(rivals) :
        Meetings(idx[rivals[k][1]], idx[rivals[k][2]],
                 (0..(W - 1)) \ {rivalry_week}) \cap values = {}

\* C21 as stated: every assignment that satisfies the opposite-division
\* single round (Constraint 4) and the rivalry week lock (Constraint 6) has
\* every rivalry pair meeting in the rivalry week only
C21_ImpliedByOppositeRound ==
    (FamilyHolds("4") /\ FamilyHolds("6")) => RivalsMeetInRivalryWeekOnly

\* C21: every assignment that satisfies the rivalry week lock (Constraint 6)
\* and the non-division at-most-once family (Constraint 10) has every
\* rivalry pair meeting exactly once, in the rivalry week
C21_ImpliedByAtMostOnce ==
    (FamilyHolds("6") /\ FamilyHolds("10")) =>
        /\ RivalsMeetInRivalryWeekOnly
        /\ \A k \in 1..Len(rivals) :
              Cardinality(Meetings(idx[rivals[k][1]], idx[rivals[k][2]],
                                   0..(W - 1)) \cap values) = 1

\* an assignment with changed opponents that keeps the rivalry week lock
\* and the at-most-once family, and breaks the opposite-division round
C21_Witness ==
    /\ pc = "changed"
    /\ FamilyHolds("6")
    /\ FamilyHolds("10")
    /\ ~FamilyHolds("4")

\* the positions <<k4, k10>> of a Constraint 4 and a Constraint 10 over the
\* same pair of teams of opposite divisions
OppositeTwins(m) ==
    {p \in {k \in 1..Len(m) : m[k].fam = "4"} \X
           {k \in 1..Len(m) : m[k].fam = "10"} :
        m[p[1]].vars = m[p[2]].vars}

OppositeTwinsA == OppositeTwins(ModelA)

\* whether a constraint is a Constraint 10 over a pair of opposite divisions
AtMostOnceOfOpposite(c) ==
    /\ c.fam = "10"
    /\ \E v \in c.vars : opposite[DivOfIdx[v[1]]] = DivOfIdx[v[2]]

\* the model of Scenario A without Constraint 10 on opposite-division pairs
ModelA_without_twins ==
    LET Kept(c) == ~AtMostOnceOfOpposite(c)
    IN  SelectSeq(ModelA, Kept)

\* C22: for pairs of opposite divisions Constraint 10 (at most once) adds
\* nothing to Constraint 4 (exactly once): on every assignment the
\* Constraint 10 of such a pair holds whenever its Constraint 4 holds, and
\* the model is satisfied with Constraint 10 on those pairs exactly when it
\* is satisfied without
C22_AtMostOnceRedundantForOpposite ==
    InScenario(ScenarioA) =>
        /\ \A p \in OppositeTwinsA :
              Holds(ModelA[p[1]], values) => Holds(ModelA[p[2]], values)
        /\ Satisfies(ModelA, values) <=> Satisfies(ModelA_without_twins, values)

\* an assignment in which a pair of opposite divisions meets twice: both
\* its Constraint 10 and its Constraint 4 fail
C22_Witness ==
    /\ pc = "changed"
    /\ \E p \in OppositeTwinsA :
          /\ ~Holds(ModelA[p[2]], values)
          /\ ~Holds(ModelA[p[1]], values)

\* the weeks of the variables of a constraint
WeeksOf(c) == {v[3] : v \in c.vars}

\* C23: for every season length W the density floor (Constraint 9) is
\* emitted for every team and sums that team's divisional match variables
\* of exactly the last 8 weeks of the season, week indices W-8..W-1
C23_FloorWindowFollowsW ==
    ConstraintsAdded =>
        /\ Cardinality({k \in 1..Len(model) : model[k].fam = "9"}) = T
        /\ \A k \in 1..Len(model) :
              model[k].fam = "9" => WeeksOf(model[k]) = (W - 8)..(W - 1)

\* the entries of team t's schedule of the given types
EntriesOf(t, types) ==
    {n \in 1..Len(team_schedules[t]) : team_schedules[t][n].Type \in types}

\* the entries of team t's schedule played at home
HomeEntriesOf(t) ==
    {n \in 1..Len(team_schedules[t]) : team_schedules[t][n].Venue = "Home"}

\* C24: in every schedule produced for the configured league each team has
\* 14 games, of which exactly 6 are classified 'Division' (3 at home and 3
\* away), exactly 4 'Opposite' and exactly 4 'Cross-Division' or 'Rivalry',
\* exactly one of these 'Rivalry'; the team hosts exactly 2 of the 4 games
\* that are neither 'Division' nor 'Opposite'
C24_TypeBreakdown ==
    (Produced /\ InScenario(ScenarioA)) =>
        \A t \in TeamNames :
            /\ Len(team_schedules[t]) = 14
            /\ Cardinality(EntriesOf(t, {"Division"})) = 6
            /\ Cardinality(EntriesOf(t, {"Division"}) \cap HomeEntriesOf(t)) = 3
            /\ Cardinality(EntriesOf(t, {"Division"}) \ HomeEntriesOf(t)) = 3
            /\ Cardinality(EntriesOf(t, {"Opposite"})) = 4
            /\ Cardinality(EntriesOf(t, {"Cross-Division", "Rivalry"})) = 4
            /\ Cardinality(EntriesOf(t, {"Rivalry"})) = 1
            /\ Cardinality(EntriesOf(t, {"Cross-Division", "Rivalry"})
                               \cap HomeEntriesOf(t)) = 2

\* a schedule produced after the search reversed venues, in which a team
\* hosts its rivalry game and another team plays its rivalry game away
C24_Witness ==
    /\ Produced
    /\ InScenario(ScenarioA)
    /\ flips > 0
    /\ \E t \in TeamNames :
          EntriesOf(t, {"Rivalry"}) \cap HomeEntriesOf(t) # {}
    /\ \E t \in TeamNames :
          EntriesOf(t, {"Rivalry"}) \ HomeEntriesOf(t) # {}

\* whether teams a and b are a rivalry pair, in either order
RivalryPair(a, b) ==
    \E k \in 1..Len(rivals) : <<a, b>> = rivals[k] \/ <<b, a>> = rivals[k]

\* C25: in every schedule produced for the configured league, week 10
\* consists of exactly 8 games, one for every rivalry pair, all classified
\* 'Rivalry' (none 'Division', 'Opposite' or 'Cross-Division'), and a game
\* of any week is classified 'Rivalry' if and only if it is between a
\* rivalry pair
C25_RivalryWeekIsRivalryGames ==
    (Produced /\ InScenario(ScenarioA)) =>
        /\ Cardinality({n \in 1..Len(games_by_week) :
                            games_by_week[n].Week = 10}) = 8
        /\ \A k \in 1..Len(rivals) :
              \E n \in 1..Len(games_by_week) :
                  /\ games_by_week[n].Week = 10
                  /\ {games_by_week[n].Home, games_by_week[n].Away} =
                         {rivals[k][1], rivals[k][2]}
        /\ \A n \in 1..Len(games_by_week) :
              /\ games_by_week[n].Week = 10 => games_by_week[n].Type = "Rivalry"
              /\ games_by_week[n].Type = "Rivalry" <=>
                     RivalryPair(games_by_week[n].Home, games_by_week[n].Away)

\* a produced schedule whose week 10 has a rivalry game hosted by the first
\* team of its pair and one hosted by the second
C25_Witness ==
    /\ Produced
    /\ InScenario(ScenarioA)
    /\ \E n \in 1..Len(games_by_week) : \E k \in 1..Len(rivals) :
          /\ games_by_week[n].Week = 10
          /\ <<games_by_week[n].Home, games_by_week[n].Away>> = rivals[k]
    /\ \E n \in 1..Len(games_by_week) : \E k \in 1..Len(rivals) :
          /\ games_by_week[n].Week = 10
          /\ <<games_by_week[n].Away, games_by_week[n].Home>> = rivals[k]

(***************************************************************************)
(* The streak check and the window constraint as functions of a venue      *)
(* sequence: the first two teams meet once in every week, at either        *)
(* team's home, and the schedule is extracted and validated                *)
(***************************************************************************)
InitStreak ==
    /\ W = ScenarioA[1]
    /\ rivals = ScenarioA[2]
    /\ pc = "pattern"
    /\ values = {}
    /\ swaps = 0
    /\ flips = 0
    /\ status = "NONE"
    /\ outcome = "none"
    /\ games_by_week = << >>
    /\ team_schedules = [t \in TeamNames |-> << >>]
    /\ files = {}
    /\ violations = {}
    /\ LiveDraftOptimizer

\* the game of the next week is added, at the home of either team
AddWeek ==
    /\ pc = "pattern"
    /\ \E k \in {<<0, 1, Cardinality(values)>>, <<1, 0, Cardinality(values)>>} :
          values' = values \cup {k}
    /\ pc' = IF Cardinality(values) = W - 1 THEN "given" ELSE "pattern"
    /\ UNCHANGED draft_vars
    /\ UNCHANGED <<W, rivals, swaps, flips, status, outcome, games_by_week,
                   team_schedules, files, violations>>

NextStreak == AddWeek \/ ExtractGiven \/ Validate

StreakSpec == InitStreak /\ [][NextStreak]_vars

\* the window constraints of the configured season
StreakCap == Constraint12(ScenarioA[1])

\* whether a window constraint of team i fails on the assignment
WindowViolated(i) ==
    \E k \in 1..Len(StreakCap) :
        /\ \/ \A v \in StreakCap[k].vars : v[1] = i
           \/ \A v \in StreakCap[k].vars : v[2] = i
        /\ ~Holds(StreakCap[k], values)

\* team t's schedule has exactly one game in each of the 14 weeks
OneGameEveryWeek(t) ==
    /\ Len(team_schedules[t]) = 14
    /\ \A w \in 1..14 : \E n \in 1..14 : team_schedules[t][n].Week = w

\* C26: for every team schedule with exactly one game in each of the 14
\* weeks the streak check of the validator flags the team exactly when a
\* window constraint of that team (more than 3 home or more than 3 away
\* games in 4 consecutive weeks) fails, and the validation reports
\* 'Consecutive Home/Away Balance' exactly when some window constraint of
\* such a team fails
C26_StreakCheckMatchesWindows ==
    (pc \in {"statistics", "done"} /\ W = 14) =>
        /\ \A t \in TeamNames :
              OneGameEveryWeek(t) =>
                  (StreakViolation(team_schedules[t]) <=> WindowViolated(idx[t]))
        /\ (\A t \in TeamNames :
                OneGameEveryWeek(t) \/ team_schedules[t] = << >>) =>
              (("Consecutive Home/Away Balance" \in violations) <=>
                   \E t \in TeamNames : WindowViolated(idx[t]))

\* a validated schedule whose only streak of 4 is the last 4 weeks, all at
\* the first team's home
C26_Witness ==
    /\ pc = "statistics"
    /\ OneGameEveryWeek(idx_to_team[0])
    /\ "Consecutive Home/Away Balance" \in violations
    /\ values = {<<0, 1, w>> : w \in {0, 2, 4, 6, 8, 10, 11, 12, 13}} \cup
                {<<1, 0, w>> : w \in {1, 3, 5, 7, 9}}

\* the entries of team t's list for week w against opponent o at venue v
EntriesFor(t, w, o, v) ==
    {n \in 1..Len(team_schedules[t]) :
        /\ team_schedules[t][n].Week = w
        /\ team_schedules[t][n].Opponent = o
        /\ team_schedules[t][n].Venue = v}

\* C27: in every produced schedule every true match variable has exactly
\* one record in games_by_week, whose weeks are non-decreasing, exactly one
\* 'Home' entry in the home team's list and exactly one 'Away' entry in the
\* away team's list, both with the week and the type of the record; every
\* team's list has 14 entries, the n-th of week n; no cell of the team grid
\* is 'BYE'
C27_ViewsAgree ==
    Produced =>
        /\ Len(games_by_week) = Cardinality(values)
        /\ \A n \in 1..(Len(games_by_week) - 1) :
              games_by_week[n].Week <= games_by_week[n + 1].Week
        /\ \A k \in values :
              LET home == idx_to_team[k[1]]
                  away == idx_to_team[k[2]]
                  recs == {n \in 1..Len(games_by_week) :
                              /\ games_by_week[n].Home = home
                              /\ games_by_week[n].Away = away
                              /\ games_by_week[n].Week = k[3] + 1}
              IN  /\ Cardinality(recs) = 1
                  /\ Cardinality(EntriesFor(home, k[3] + 1, away, "Home")) = 1
                  /\ Cardinality(EntriesFor(away, k[3] + 1, home, "Away")) = 1
                  /\ \A r \in recs :
                        /\ \A n \in EntriesFor(home, k[3] + 1, away, "Home") :
                              team_schedules[home][n].Type = games_by_week[r].Type
                        /\ \A n \in EntriesFor(away, k[3] + 1, home, "Away") :
                              team_schedules[away][n].Type = games_by_week[r].Type
        /\ \A t \in TeamNames :
              /\ Len(team_schedules[t]) = 14
              /\ \A n \in 1..14 : team_schedules[t][n].Week = n
              /\ \A week \in 1..14 : team_grid(team_schedules)[t][week] # "BYE"

\* a produced schedule, found after the search reversed a venue, whose grid
\* shows a team at home in one week and away in another
C27_Witness ==
    /\ Produced
    /\ flips > 0
    /\ \E t \in TeamNames : \E w1, w2 \in 1..14 : \E o1, o2 \in TeamNames :
          /\ team_grid(team_schedules)[t][w1] = <<"vs", o1>>
          /\ team_grid(team_schedules)[t][w2] = <<"@", o2>>

\* the solver has returned without a solution
Unsolved == status \in {"INFEASIBLE", "MODEL_INVALID", "UNKNOWN"}

\* C28: when the solver returns any status other than OPTIMAL or FEASIBLE
\* the script never reaches the extraction, the export or the validation,
\* holds no extracted schedule and no validation result, has created none
\* of the three files, and every later step leaves the schedule, the files
\* and the validation result unchanged: only the outcome message is set
\* and the statistics are printed
C28_NothingProducedWithoutSolution ==
    /\ [](Unsolved =>
            /\ pc \in {"solved", "statistics", "done"}
            /\ games_by_week = << >>
            /\ \A t \in TeamNames : team_schedules[t] = << >>
            /\ files = {}
            /\ violations = {}
            /\ pc # "solved" => outcome = OutcomeOf(status))
    /\ [][Unsolved =>
            /\ games_by_week' = games_by_week
            /\ team_schedules' = team_schedules
            /\ files' = files
            /\ violations' = violations
            /\ values' = values
            /\ status' = status]_vars

\* runs that ended without a solution: one proved infeasible, one timed out
C28_Witness ==
    /\ pc = "done"
    /\ Unsolved
    /\ files = {}
    /\ outcome \in {"No solution exists", "Solver returned status"}

(***************************************************************************)
(* LiveDraftOptimizer: the calls of initialize_draft and record_pick, in   *)
(* any order, on a newly constructed optimizer                             *)
(***************************************************************************)
MaxPicks == 3

\* the owners and the players of the calls: "ox" is in no draft order and
\* "px" is in no player pool
DraftOrders == {<< >>, <<"o1", "o2">>}

PlayerPools ==
    {<< >>,
     <<[name |-> "p1", position |-> "RB"], [name |-> "p2", position |-> "WR"],
       [name |-> "p1", position |-> "QB"]>>}

PickedNames == {"p1", "p2", "px"}

PickingOwners == {"o1", "ox"}

InitDraft ==
    /\ W = ScenarioA[1]
    /\ rivals = ScenarioA[2]
    /\ pc = "start"
    /\ values = {}
    /\ swaps = 0
    /\ flips = 0
    /\ status = "NONE"
    /\ outcome = "none"
    /\ games_by_week = << >>
    /\ team_schedules = [t \in TeamNames |-> << >>]
    /\ files = {}
    /\ violations = {}
    /\ LiveDraftOptimizer

\* the elements of a list
Elements(l) == {l[n] : n \in 1..Len(l)}

\* initialize_draft(draft_order, player_pool): "if player_pool" is false for
\* None and for the empty list; a name that is twice in the pool keeps the
\* ranking of its last position
initialize_draft ==
    \E draft_order \in DraftOrders : \E player_pool \in PlayerPools :
        /\ draft_state' =
              [draft_state EXCEPT
                  !.draft_order = draft_order,
                  !.other_rosters = [o \in Elements(draft_order) |-> << >>],
                  !.available_players = IF player_pool # << >> THEN player_pool ELSE @]
        /\ player_rankings' =
              LET names == {player_pool[i].name : i \in 1..Len(player_pool)}
              IN  [n \in DOMAIN player_rankings \cup names |->
                      IF n \in names
                      THEN CHOOSE i \in 1..Len(player_pool) :
                              /\ player_pool[i].name = n
                              /\ \A j \in 1..Len(player_pool) :
                                    player_pool[j].name = n => j <= i
                      ELSE player_rankings[n]]
        /\ lifecycle' = IF lifecycle = "constructed" /\ draft_order # << >>
                        THEN "initialized" ELSE "other"
        /\ UNCHANGED recorded
        /\ UNCHANGED scheduler_vars

\* a variant of advance_draft_position that divides the number of the next
\* pick instead of the number of picks made
advance_draft_position_next_pick(ds) ==
    LET picks_per_round == Len(ds.draft_order)
        current_pick == ds.current_pick + 1
    IN  IF picks_per_round = 0
        THEN [ds EXCEPT !.current_pick = current_pick]
        ELSE [ds EXCEPT !.current_pick = current_pick,
                        !.current_round = (current_pick \div picks_per_round) + 1]

\* advance_draft_position: with an empty draft order the division raises
\* ZeroDivisionError after current_pick was incremented
advance_draft_position(ds) ==
    LET picks_per_round == Len(ds.draft_order)
        current_pick == ds.current_pick + 1
    IN  IF picks_per_round = 0
        THEN [ds EXCEPT !.current_pick = current_pick]
        ELSE [ds EXCEPT !.current_pick = current_pick,
                        !.current_round = ((current_pick - 1) \div picks_per_round) + 1]

\* record_pick(player_name, owner)
record_pick ==
    /\ Len(recorded) < MaxPicks
    /\ \E player_name \in PickedNames : \E owner \in PickingOwners :
        /\ draft_state' =
              advance_draft_position(
                  [draft_state EXCEPT
                      !.picked_players = @ \cup {player_name},
                      !.other_rosters =
                          IF owner \in DOMAIN @
                          THEN [@ EXCEPT ![owner] = Append(@, player_name)]
                          ELSE @,
                      !.available_players =
                          SelectSeq(@, LAMBDA p : p.name # player_name)])
        /\ recorded' = Append(recorded, <<player_name, owner>>)
    /\ lifecycle' = IF lifecycle = "initialized" THEN "initialized" ELSE "other"
    /\ UNCHANGED player_rankings
    /\ UNCHANGED scheduler_vars

NextDraft == initialize_draft \/ record_pick

DraftSpec == InitDraft /\ [][NextDraft]_vars

\* the names recorded for an owner, in the order of the calls
RecordedFor(owner) ==
    LET mine == SelectSeq(recorded, LAMBDA r : r[2] = owner)
    IN  [n \in 1..Len(mine) |-> mine[n][1]]

\* C30: on an optimizer that received initialize_draft with a non-empty
\* draft order as its first call and no other initialize_draft, after n
\* record_pick calls current_pick is n + 1, current_round is
\* (n div len(draft_order)) + 1, every recorded name is in picked_players,
\* no available player has a recorded name, and the rosters are those of
\* the owners of the draft order, each holding the names recorded for that
\* owner: a pick by an owner outside the draft order changes no roster
C30_DraftPositionAndRosters ==
    /\ [](lifecycle = "initialized" =>
            LET n == Len(recorded)
                names == {recorded[k][1] : k \in 1..Len(recorded)}
            IN  /\ draft_state.draft_order # << >>
                /\ draft_state.current_pick = n + 1
                /\ draft_state.current_round =
                       (n \div Len(draft_state.draft_order)) + 1
                /\ names \subseteq draft_state.picked_players
                /\ \A k \in 1..Len(draft_state.available_players) :
                      draft_state.available_players[k].name \notin names
                /\ DOMAIN draft_state.other_rosters =
                       Elements(draft_state.draft_order)
                /\ \A o \in DOMAIN draft_state.other_rosters :
                      draft_state.other_rosters[o] = RecordedFor(o)
                /\ draft_state.your_roster = << >>)
    /\ [][(/\ lifecycle = "initialized"
           /\ Len(recorded') = Len(recorded) + 1
           /\ recorded'[Len(recorded')][2] \notin Elements(draft_state.draft_order))
          => /\ draft_state'.other_rosters = draft_state.other_rosters
             /\ draft_state'.your_roster = draft_state.your_roster]_vars

\* three picks after the initialization, one of them by an owner outside
\* the draft order and one of a player outside the pool: the draft is in
\* its second round
C30_Witness ==
    /\ lifecycle = "initialized"
    /\ Len(recorded) = 3
    /\ \E k \in 1..3 : recorded[k][2] = "ox"
    /\ \E k \in 1..3 : recorded[k][1] = "px"
    /\ draft_state.current_round = 2
    /\ draft_state.available_players # << >>

=============================================================================
